---- MODULE Spec2Model ----
(***************************************************************************)
(* hugmanrique/wordle-generator: the balanced Feistel network              *)
(* (src/src/feistel.rs) and the Wordle sequence generator (src/src/lib.rs) *)
(* that cycle-walks it over a word list.                                   *)
(*                                                                         *)
(* The two external hash functions (wyhash, SHA-512) are deterministic     *)
(* functions whose values the repository does not fix.  They are modelled  *)
(* as members of a bounded family of functions, drawn once in Init and     *)
(* never changed (variables wy and sha).                                   *)
(*                                                                         *)
(* Integers are u64 in the source.  Every value the bounded model reaches  *)
(* stays far below 2^31, so no shift or addition wraps.                    *)
(***************************************************************************)
EXTENDS Integers, Sequences, FiniteSets

\* ------------------------------------------------------------------ bounds
\* Largest bit_len for which the engine test scans the whole domain.
MaxBitLen == 4
\* Largest domain_size handed to bit_len_for (besides 347).
MaxDomain == 70
\* Longest word list.
MaxItems == 3
\* Largest window_len.
MaxWindow == 4
\* Passes of the occurrence test over a window.
MaxPasses == 2
\* Largest day queried on the pair of generators.
MaxDay == 3

\* ------------------------------------------------------- program constants
ROUNDS == 8
U64_BITS == 64

\* ------------------------------------------------------------- bit algebra
RECURSIVE BitXor(_, _)
BitXor(a, b) ==
    IF a = 0 THEN b
    ELSE IF b = 0 THEN a
    ELSE (((a % 2) + (b % 2)) % 2) + 2 * BitXor(a \div 2, b \div 2)

RECURSIVE BitAnd(_, _)
BitAnd(a, b) ==
    IF a = 0 \/ b = 0 THEN 0
    ELSE ((a % 2) * (b % 2)) + 2 * BitAnd(a \div 2, b \div 2)

RECURSIVE BitOr(_, _)
BitOr(a, b) ==
    IF a = 0 THEN b
    ELSE IF b = 0 THEN a
    ELSE (IF (a % 2) = 1 \/ (b % 2) = 1 THEN 1 ELSE 0) + 2 * BitOr(a \div 2, b \div 2)

Shr(a, n) == a \div (2 ^ n)
Shl(a, n) == a * (2 ^ n)

\* usize::BITS - x.leading_zeros(): the number of bits of x.
RECURSIVE BitLength(_)
BitLength(x) == IF x = 0 THEN 0 ELSE 1 + BitLength(x \div 2)

Pow2(n) == 2 ^ n

\* ------------------------------------------------------------------ state
VARIABLES
    \* the external hash functions (fixed once drawn)
    wy,             \* the wyhash function: parameters of the family member
    sha,            \* the SHA-512 function: parameter of the family member
    \* bit_len_for called on its own
    domain_size,    \* the argument
    bit_len_out,    \* NotCalled, Panicked or [len |-> the u8 returned]
    \* a FeistelNetwork on its own, under the test tests::bijective
    fpc,            \* "new", "ready" or "panicked"
    fbits,          \* the bit_len the network was asked for
    fnet,           \* the FeistelNetwork: [keys, upper_shift, lower_mask]
    value,          \* loop variable of the test: next input to permute
    seen,           \* the outputs marked so far
    failed,         \* an assertion of the test failed
    \* the Wordle generators (one per g in Gens)
    gpc,            \* "new", "idle", "walk", "ctor_panicked" or "get_panicked"
    words,          \* the borrowed word list
    window_len,
    seed,
    hasher,         \* what the Sha512 has absorbed since its last reset
    network,        \* the FeistelNetwork<8>
    day,            \* argument of the get in progress (or of the last one)
    idx,            \* local idx of get
    steps,          \* calls of permute made by the get in progress
    ret,            \* what the latest get returned, [day, item]; NoReturn until it does
    \* the loop of the test all_words_before_new_start over generator 1
    pass,           \* i: the pass under way (0 before the first)
    base,           \* the window the pass queries
    scan,           \* the next day of the window to query
    picked,         \* the list indices get selected during the pass, in order
    occurrences     \* the test's HashMap: word -> times returned

worldVars == <<wy, sha>>
bitLenVars == <<domain_size, bit_len_out>>
feistelVars == <<fpc, fbits, fnet, value, seen, failed>>
genVars == <<gpc, words, window_len, seed, hasher, network, day, idx, steps, ret>>
testVars == <<pass, base, scan, picked, occurrences>>
vars == <<worldVars, bitLenVars, feistelVars, genVars, testVars>>

NotCalled == [tag |-> "not_called"]
Panicked == [tag |-> "panicked"]
NoNetwork == [tag |-> "no_network"]

\* ----------------------------------------------------------- hash models
\* Round keys are u64 in the source; the model draws them from KeyVals.
KeyVals == {0, 1}
KeyArrays == [1..ROUNDS -> KeyVals]
ZeroKeys == [i \in 1..ROUNDS |-> 0]

\* The family wyhash is drawn from.  On one-bit halves (values 0 and 1) the
\* sixteen members give every pair of one-bit round functions for the two keys.
WyHashModels == [q : {0, 1}, r : {0, 1}, s : {0, 1}, u : {0, 1}]

\* WyHash::with_seed(key), write_u64(value), finish(): a 64-bit digest, of
\* which the model keeps three bits (more than any lower_mask it reaches keeps).
WyHash(key, val) ==
    (val * (wy.q + key * wy.r) + key * wy.s + wy.u
        + (val \div 2) * (val + key + 1)) % 8

\* The family SHA-512 is drawn from.
ShaModels == {0, 93}

\* Sha512 over the absorbed words: the digest as ROUNDS words, one per round
\* key (bytes_of_mut lays the 64 digest bytes over the [u64; 8] in order).
RECURSIVE Absorb(_, _)
Absorb(acc, data) ==
    IF data = <<>> THEN acc
    ELSE Absorb((acc * 5 + 3 * Head(data) + 7) % 256, Tail(data))

Sha512(data) == [i \in 1..ROUNDS |-> (Absorb(sha, data) \div Pow2(i - 1)) % 2]

\* ------------------------------------------------- feistel.rs: the engine
\* (1u64 << upper_shift) - 1.  A mask of more than 30 bits does not fit the
\* model checker's integers and is kept as its count of one bits.
LowerMask(upper_shift) ==
    IF upper_shift <= 30 THEN Pow2(upper_shift) - 1 ELSE [ones |-> upper_shift]

\* with_keys with its upper bound off by one (bit_len < u64::BITS).
WithKeysAcceptsBelow(bit_len) ==
    /\ 0 < bit_len /\ bit_len < U64_BITS
    /\ (bit_len % 2) = 0

\* The two assertions of with_keys.
WithKeysAccepts(bit_len) ==
    /\ 0 < bit_len /\ bit_len <= U64_BITS
    /\ (bit_len % 2) = 0

\* The network with_keys builds once its assertions hold.
with_keys(bit_len, keys) ==
    [keys |-> keys,
     upper_shift |-> bit_len \div 2,
     lower_mask |-> LowerMask(bit_len \div 2)]

\* round without its mask.
round_unmasked(net, lower, key) == WyHash(key, lower)

\* FeistelNetwork::round
round(net, lower, key) == BitAnd(WyHash(key, lower), net.lower_mask)

\* The loop of permute with | for ^.
RECURSIVE PermuteFromOr(_, _, _, _)
PermuteFromOr(net, upper, lower, i) ==
    IF i > ROUNDS
    THEN BitOr(Shl(lower, net.upper_shift), upper)
    ELSE PermuteFromOr(net, lower,
                       BitOr(upper, round(net, lower, net.keys[i])), i + 1)

\* The loop of permute from round i on, and its result.
RECURSIVE PermuteFrom(_, _, _, _)
PermuteFrom(net, upper, lower, i) ==
    IF i > ROUNDS
    THEN BitOr(Shl(lower, net.upper_shift), upper)
    ELSE PermuteFrom(net, lower,
                     BitXor(upper, round(net, lower, net.keys[i])), i + 1)

\* FeistelNetwork::permute
permute(net, input) ==
    PermuteFrom(net, Shr(input, net.upper_shift),
                BitAnd(input, net.lower_mask), 1)

\* FeistelNetwork::bit_len_for, for domain_size > 0
bit_len_for(size) ==
    LET len == BitLength(size)
    IN  IF (len % 2) = 1 THEN len + 1 ELSE len

\* --------------------------------------------- bit_len_for on its own
DomainSizes == 0..MaxDomain \cup {347}

BitLenInit ==
    /\ domain_size \in DomainSizes
    /\ bit_len_out = NotCalled

BitLenIdle ==
    /\ domain_size = 0
    /\ bit_len_out = NotCalled

\* A call bit_len_for(domain_size): the assertion, then the length.
BitLenFor ==
    /\ bit_len_out = NotCalled
    /\ bit_len_out' = IF domain_size > 0
                      THEN [len |-> bit_len_for(domain_size)]
                      ELSE Panicked
    /\ UNCHANGED <<domain_size, worldVars, feistelVars, genVars, testVars>>

\* ------------------------------------- the engine under tests::bijective
\* bit_len is a u8.
BitLens == 0..(MaxBitLen + 1) \cup {62, 63, 64, 65, 255}

FeistelInit ==
    /\ fpc = "new"
    /\ fbits = 0
    /\ fnet = NoNetwork
    /\ value = 0
    /\ seen = {}
    /\ failed = FALSE

\* FeistelNetwork::with_keys(bit_len, keys), then the test's empty seen array.
WithKeys(bit_len, keys) ==
    /\ fpc = "new"
    /\ fbits' = bit_len
    /\ IF WithKeysAccepts(bit_len)
       THEN /\ fpc' = "ready"
            /\ fnet' = with_keys(bit_len, keys)
       ELSE /\ fpc' = "panicked"
            /\ UNCHANGED fnet
    /\ UNCHANGED <<value, seen, failed, worldVars, bitLenVars, genVars, testVars>>

\* One iteration of the loop of tests::bijective over 0..2^bit_len:
\* result = permute(value); assert !seen[result]; seen[result] = true.
\* (seen has 2^bit_len entries: a result outside it fails the run as well.)
Permute ==
    /\ fpc = "ready"
    /\ fbits <= MaxBitLen
    /\ value < Pow2(fbits)
    /\ ~failed
    /\ LET result == permute(fnet, value)
       IN  /\ failed' = (result \in seen \/ result >= Pow2(fbits))
           /\ seen' = seen \cup {result}
    /\ value' = value + 1
    /\ UNCHANGED <<fpc, fbits, fnet, worldVars, bitLenVars, genVars, testVars>>

\* network.keys_mut()[i] = key: once through the domain, the test overwrites
\* a round key in place and starts over on the rekeyed network.
KeysMut(i, key) ==
    /\ fpc = "ready"
    /\ IF fbits <= MaxBitLen THEN value = Pow2(fbits) ELSE TRUE
    /\ key # fnet.keys[i]
    /\ fnet' = [fnet EXCEPT !.keys[i] = key]
    /\ value' = 0
    /\ seen' = {}
    /\ failed' = FALSE
    /\ UNCHANGED <<fpc, fbits, worldVars, bitLenVars, genVars, testVars>>

\* ------------------------------------------------ lib.rs: the generator
Gens == {1, 2}
Seeds == {0, 1}
NoReturn == [tag |-> "no_return"]

\* A list of n distinct words.
WordList(n) == [i \in 1..n |-> <<"word", i - 1>>]

\* FeistelNetwork::for_domain(domain_size), for domain_size > 0: the network
\* of the minimal width, its round keys zero until the first update_window.
for_domain(size) == with_keys(bit_len_for(size), ZeroKeys)

GenInit ==
    /\ gpc = [g \in Gens |-> "new"]
    /\ words = [g \in Gens |-> <<>>]
    /\ window_len = [g \in Gens |-> 0]
    /\ seed = [g \in Gens |-> 0]
    /\ hasher = [g \in Gens |-> <<>>]
    /\ network = [g \in Gens |-> NoNetwork]
    /\ day = [g \in Gens |-> 0]
    /\ idx = [g \in Gens |-> 0]
    /\ steps = [g \in Gens |-> 0]
    /\ ret = [g \in Gens |-> NoReturn]

TestInit ==
    /\ pass = 0
    /\ base = 0
    /\ scan = 0
    /\ picked = <<>>
    /\ occurrences = <<>>

\* Wordle::from_seed(words, window_len, seed) for generator g.
from_seed(g, list, len, s) ==
    /\ gpc[g] = "new"
    /\ IF Len(list) > 0
       THEN /\ gpc' = [gpc EXCEPT ![g] = "idle"]
            /\ words' = [words EXCEPT ![g] = list]
            /\ window_len' = [window_len EXCEPT ![g] = len]
            /\ seed' = [seed EXCEPT ![g] = s]
            /\ hasher' = [hasher EXCEPT ![g] = <<>>]
            /\ network' = [network EXCEPT ![g] = for_domain(Len(list))]
       ELSE /\ gpc' = [gpc EXCEPT ![g] = "ctor_panicked"]
            /\ UNCHANGED <<words, window_len, seed, hasher, network>>
    /\ UNCHANGED <<day, idx, steps, ret>>

\* update_window that finalizes without resetting the hasher.
update_window_no_reset(g, window) ==
    LET absorbed == hasher[g] \o <<seed[g], window>>
    IN  [network |-> [network[g] EXCEPT !.keys = Sha512(absorbed)],
         hasher |-> absorbed]

\* update_window that derives round keys only while they are still zero.
update_window_once(g, window) ==
    LET absorbed == hasher[g] \o <<seed[g], window>>
    IN  [network |-> IF network[g].keys = ZeroKeys
                     THEN [network[g] EXCEPT !.keys = Sha512(absorbed)]
                     ELSE network[g],
         hasher |-> <<>>]

\* Wordle::update_window: the hasher absorbs the seed and the window, its
\* digest overwrites the round keys, and the hasher is reset.
update_window(g, window) ==
    LET absorbed == hasher[g] \o <<seed[g], window>>
    IN  [network |-> [network[g] EXCEPT !.keys = Sha512(absorbed)],
         hasher |-> <<>>]

\* The walk of get is cut off one call of permute past the domain size: by
\* then an index has come up twice and the loop never ends.
StepCap(g) == Pow2(2 * network[g].upper_shift) + 1

\* Wordle::get(d) up to its loop: the window, update_window, the first permute.
get(g, d) ==
    /\ gpc[g] = "idle"
    /\ \A o \in Gens : gpc[o] # "walk"
    /\ IF window_len[g] = 0
       THEN /\ gpc' = [gpc EXCEPT ![g] = "get_panicked"]   \* day / 0
            /\ UNCHANGED <<hasher, network, day, idx, steps>>
       ELSE LET window == d \div window_len[g]
                updated == update_window(g, window)
            IN  /\ hasher' = [hasher EXCEPT ![g] = updated.hasher]
                /\ network' = [network EXCEPT ![g] = updated.network]
                /\ day' = [day EXCEPT ![g] = d]
                /\ idx' = [idx EXCEPT ![g] =
                              permute(updated.network, d % window_len[g])]
                /\ steps' = [steps EXCEPT ![g] = 1]
                /\ gpc' = [gpc EXCEPT ![g] = "walk"]
    /\ ret' = [ret EXCEPT ![g] = NoReturn]
    /\ UNCHANGED <<words, window_len, seed>>

\* The loop of get folding the index into range instead of walking.
get_walk_modulo(g) ==
    /\ gpc[g] = "walk"
    /\ idx[g] >= Len(words[g])
    /\ idx' = [idx EXCEPT ![g] = idx[g] % Len(words[g])]
    /\ steps' = [steps EXCEPT ![g] = IF @ < StepCap(g) THEN @ + 1 ELSE @]
    /\ UNCHANGED <<gpc, words, window_len, seed, hasher, network, day, ret>>

\* One iteration of the loop of get: while idx >= words.len().
get_walk(g) ==
    /\ gpc[g] = "walk"
    /\ idx[g] >= Len(words[g])
    /\ idx' = [idx EXCEPT ![g] = permute(network[g], idx[g])]
    /\ steps' = [steps EXCEPT ![g] = IF @ < StepCap(g) THEN @ + 1 ELSE @]
    /\ UNCHANGED <<gpc, words, window_len, seed, hasher, network, day, ret>>

\* The end of get: self.words[idx as usize]; the locals go out of scope.
get_return(g) ==
    /\ gpc[g] = "walk"
    /\ idx[g] < Len(words[g])
    /\ ret' = [ret EXCEPT ![g] = [day |-> day[g], item |-> words[g][idx[g] + 1]]]
    /\ gpc' = [gpc EXCEPT ![g] = "idle"]
    /\ day' = [day EXCEPT ![g] = 0]
    /\ idx' = [idx EXCEPT ![g] = 0]
    /\ steps' = [steps EXCEPT ![g] = 0]
    /\ UNCHANGED <<words, window_len, seed, hasher, network>>

\* ------------------------------- tests/wordle.rs: the occurrence test
\* let mut wordle = Wordle::from_seed(&WORDS, window_len, seed);
TestFromSeed(n, len, s) ==
    /\ from_seed(1, WordList(n), len, s)
    /\ UNCHANGED <<worldVars, bitLenVars, feistelVars, testVars>>

\* for i in 1..=5: the next pass starts, over window w.
TestStartPass(w) ==
    /\ gpc[1] = "idle"
    /\ pass < MaxPasses
    /\ pass = 0 \/ scan = window_len[1]
    /\ pass' = pass + 1
    /\ base' = w
    /\ scan' = 0
    /\ picked' = <<>>
    /\ UNCHANGED <<occurrences, worldVars, bitLenVars, feistelVars, genVars>>

\* let word = wordle.get(day), for the next day of the window.
TestGet ==
    /\ pass > 0
    /\ scan < window_len[1]
    /\ get(1, base * window_len[1] + scan)
    /\ UNCHANGED <<worldVars, bitLenVars, feistelVars, testVars>>

TestWalk ==
    /\ get_walk(1)
    /\ UNCHANGED <<worldVars, bitLenVars, feistelVars, testVars>>

\* get returns: *occurrences.entry(word).or_insert(0) += 1.
TestTally ==
    /\ get_return(1)
    /\ LET word == words[1][idx[1] + 1]
           old == IF word \in DOMAIN occurrences THEN occurrences[word] ELSE 0
       IN  occurrences' = [w \in DOMAIN occurrences \cup {word} |->
                              IF w = word THEN old + 1 ELSE occurrences[w]]
    /\ picked' = Append(picked, idx[1])
    /\ scan' = scan + 1
    /\ UNCHANGED <<pass, base, worldVars, bitLenVars, feistelVars>>

\* --------------------------- two generators built from the same arguments
PairFromSeed(g, n, len, s) ==
    /\ \A o \in Gens : gpc[o] # "new" =>
          /\ gpc[o] # "ctor_panicked" => n = Len(words[o])
          /\ gpc[o] = "ctor_panicked" => n = 0
          /\ n > 0 => len = window_len[o] /\ s = seed[o]
    /\ from_seed(g, WordList(n), len, s)
    /\ UNCHANGED <<worldVars, bitLenVars, feistelVars, testVars>>

PairGet(g, d) ==
    /\ get(g, d)
    /\ UNCHANGED <<worldVars, bitLenVars, feistelVars, testVars>>

PairWalk(g) ==
    /\ get_walk(g)
    /\ UNCHANGED <<worldVars, bitLenVars, feistelVars, testVars>>

PairReturn(g) ==
    /\ get_return(g)
    /\ UNCHANGED <<worldVars, bitLenVars, feistelVars, testVars>>

\* ------------------------------------------------------- specifications
WorldInit ==
    /\ wy \in WyHashModels
    /\ sha \in ShaModels

WorldIdle ==
    /\ wy = [q |-> 0, r |-> 0, s |-> 0, u |-> 0]
    /\ sha = 0

BitLenNext == BitLenFor

InitBitLen == WorldIdle /\ BitLenInit /\ FeistelInit /\ GenInit /\ TestInit

SpecBitLen == InitBitLen /\ [][BitLenNext]_vars

FeistelNext ==
    \/ \E bit_len \in BitLens, keys \in KeyArrays : WithKeys(bit_len, keys)
    \/ Permute
    \/ \E i \in 1..ROUNDS, key \in KeyVals : KeysMut(i, key)

InitFeistel ==
    /\ wy \in WyHashModels /\ sha = 0
    /\ BitLenIdle /\ FeistelInit /\ GenInit /\ TestInit

SpecFeistel == InitFeistel /\ [][FeistelNext]_vars

Init == WorldInit /\ BitLenIdle /\ FeistelInit /\ GenInit /\ TestInit

Next ==
    \/ \E n \in 0..MaxItems, len \in 0..MaxWindow, s \in Seeds : TestFromSeed(n, len, s)
    \/ \E w \in 0..MaxPasses : TestStartPass(w)
    \/ TestGet
    \/ TestWalk
    \/ TestTally

Spec == Init /\ [][Next]_vars

PairNext ==
    \/ \E g \in Gens, n \in 0..MaxItems, len \in 0..MaxWindow, s \in Seeds :
          PairFromSeed(g, n, len, s)
    \/ \E g \in Gens, d \in 0..MaxDay : PairGet(g, d)
    \/ \E g \in Gens : PairWalk(g)
    \/ \E g \in Gens : PairReturn(g)

SpecPair == Init /\ [][PairNext]_vars

\* =================================================================== claims

\* The width of the permuted domain of generator g: twice upper_shift.
BitWidth(g) == 2 * network[g].upper_shift

Constructed(g) == gpc[g] \in {"idle", "walk", "get_panicked"}

\* ---- C1 (SpecFeistel)
\* C1: for every even bit width and every array of round keys, permute maps
\* [0, 2^b) into [0, 2^b) and no two inputs share an output: after value
\* inputs the test has marked value distinct outputs, all inside the domain,
\* so that after all 2^b inputs every value of the domain is marked once.
C1_PermuteBijective ==
    (fpc = "ready" /\ fbits <= MaxBitLen) =>
        /\ ~failed
        /\ seen \subseteq 0..(Pow2(fbits) - 1)
        /\ Cardinality(seen) = value

\* The whole 4-bit domain went through a network keyed all-zero, and came
\* out as the whole domain, permuted.
C1_Witness ==
    /\ fpc = "ready" /\ fbits = 4 /\ fnet.keys = ZeroKeys
    /\ value = 16 /\ seen = 0..15
    /\ \E x \in 0..15 : permute(fnet, x) # x

\* ---- C7 (SpecBitLen)
\* The smallest even width b >= 2 with 2^b >= size.
RECURSIVE MinEvenWidthFrom(_, _)
MinEvenWidthFrom(size, b) ==
    IF Pow2(b) >= size THEN b ELSE MinEvenWidthFrom(size, b + 2)

MinEvenWidth(size) == MinEvenWidthFrom(size, 2)

\* C7: bit_len_for(domain_size) is, for every domain_size >= 1, the smallest
\* even bit width b with 2^b >= domain_size, and fails for domain_size = 0.
C7_MinimalEvenWidth ==
    bit_len_out # NotCalled =>
        IF domain_size = 0
        THEN bit_len_out = Panicked
        ELSE bit_len_out = [len |-> MinEvenWidth(domain_size)]

\* ---- C8 (SpecFeistel)
\* C8: with_keys fails exactly when bit_len is 0, odd or greater than 64,
\* and succeeds for every even bit_len in 2..64.
C8_ConstructionFailsExactly ==
    fpc # "new" =>
        /\ fpc = "panicked" <=> (fbits = 0 \/ (fbits % 2) = 1 \/ fbits > 64)
        /\ fpc = "ready" <=> (fbits \in 2..64 /\ (fbits % 2) = 0)

\* The widest network was built.
C8_Witness == fpc = "ready" /\ fbits = 64 /\ fnet.upper_shift = 32

\* ---- C2 (Spec)
\* C2: with window_len equal to the item count N, once a pass has queried the
\* N days of a window, every word has been returned exactly once in that pass:
\* after pass passes (over the same window again or over other windows) the
\* occurrence map holds every word, each with the count pass.
C2_EachItemOncePerPass ==
    (/\ gpc[1] = "idle" /\ pass > 0
     /\ window_len[1] = Len(words[1])
     /\ scan = window_len[1]) =>
        /\ DOMAIN occurrences = {words[1][i] : i \in 1..Len(words[1])}
        /\ \A w \in DOMAIN occurrences : occurrences[w] = pass

\* Two passes over three words, the second over another window than 0.
C2_Witness ==
    /\ gpc[1] = "idle" /\ pass = 2 /\ base = 1
    /\ Len(words[1]) = 3 /\ window_len[1] = 3 /\ scan = 3
    /\ \A w \in DOMAIN occurrences : occurrences[w] = 2

\* ---- C3 (SpecPair)
\* C3: two generators built from the same words, window length and seed
\* return the same item for the same day, whatever gets each served before.
C3_SameDaySameItem ==
    \A g, h \in Gens :
        (ret[g] # NoReturn /\ ret[h] # NoReturn /\ ret[g].day = ret[h].day) =>
            ret[g].item = ret[h].item

\* Both generators answered day 3, the second day of window 1 of length 2,
\* with the same word, which is not the one at the day's place in the list.
C3_Witness ==
    /\ ret[1] # NoReturn /\ ret[2] # NoReturn
    /\ ret[1].day = 3 /\ ret[2].day = 3
    /\ window_len[1] = 2 /\ Len(words[1]) = 3
    /\ ret[1].item = ret[2].item
    /\ ret[1].item # words[1][2]

\* ---- C4 (Spec)
\* C4: with window_len <= N, the list indices get selects for the days of
\* one window are pairwise distinct.
C4_DistinctWithinWindow ==
    (gpc[1] \in {"idle", "walk"} /\ window_len[1] <= Len(words[1])) =>
        \A i, j \in 1..Len(picked) : i # j => picked[i] # picked[j]

\* A whole window of two days over three words, in the second pass.
C4_Witness ==
    /\ gpc[1] = "idle" /\ pass = 2 /\ base = 2
    /\ Len(words[1]) = 3 /\ window_len[1] = 2
    /\ Len(picked) = 2 /\ picked[1] # picked[2]

\* ---- C5 (Spec)
\* C5: for every constructed generator and every day, the cycle walk of get
\* makes at most 2^bit_width calls of permute.
C5_WalkBounded ==
    \A g \in Gens : gpc[g] = "walk" => steps[g] <= Pow2(BitWidth(g))

\* ---- C6 (SpecPair)
\* C6: every failure is detected at construction: once from_seed has returned
\* a generator, no get on it panics.
C6_NoFailureAfterConstruction ==
    \A g \in Gens : gpc[g] # "get_panicked"

\* ---- C9 (Spec)
\* C9: on a single-item list, with any window_len >= 1, every get returns
\* that item: its walk ends (within the 2^bit_width calls after which it
\* cannot end any more) and what it returns is the one word.
C9_SingleItemAlwaysReturned ==
    \A g \in Gens :
        (Constructed(g) /\ Len(words[g]) = 1 /\ window_len[g] >= 1) =>
            /\ gpc[g] = "walk" => steps[g] < StepCap(g)
            /\ ret[g] # NoReturn => ret[g].item = words[g][1]

\* ---- C10 (Spec)
\* C10: a get changes only the round keys: the words, window_len, seed and the
\* engine's upper_shift and lower_mask stay as constructed, the hasher is
\* empty again after every step, and the steps of the walk (the calls of
\* permute) change nothing of the generator at all.
C10_GetFrame ==
    [][\A g \in Gens : Constructed(g) =>
          /\ words'[g] = words[g]
          /\ window_len'[g] = window_len[g]
          /\ seed'[g] = seed[g]
          /\ network'[g].upper_shift = network[g].upper_shift
          /\ network'[g].lower_mask = network[g].lower_mask
          /\ hasher'[g] = <<>>
          /\ gpc[g] = "walk" => network'[g] = network[g]]_vars

\* A get has returned, leaving derived round keys and an empty hasher.
C10_Witness ==
    /\ gpc[1] = "idle" /\ ret[1] # NoReturn
    /\ network[1].keys # ZeroKeys
    /\ hasher[1] = <<>>
    /\ network[1].upper_shift = 1 /\ network[1].lower_mask = 1

====
